---- MODULE Spec2Model ----
(***************************************************************************)
(* Battleship front end: the zustand game store (lib/gameStore.ts), the    *)
(* polling hook (lib/useGamePolling.ts) and the GamePage component         *)
(* (routes/game.tsx) with its two effects: the sync effect that merges the *)
(* polled ledger snapshot into the store, and the AI opponent effect.      *)
(***************************************************************************)
EXTENDS Integers, Sequences, FiniteSets, TLC

(* ---------------------------------------------------------------------- *)
(* Program constants                                                       *)
(* ---------------------------------------------------------------------- *)
CELL_EMPTY == 0
CELL_SHIP == 1
CELL_HIT == 2
CELL_MISS == 3

WAITING == 0
ACTIVE == 1
FINISHED == 2

ONLINE_WAITING == 0
ONLINE_ACTIVE == 1

GridSide == 5
shipLength == 4

GAME_STATE_SIZE == 190

(* ---------------------------------------------------------------------- *)
(* Bounds of the exploration                                               *)
(* ---------------------------------------------------------------------- *)
MaxSlider == 1       \* largest value a placement slider is moved to
MaxInflight == 1     \* snapshot fetches in flight at once
MaxRemoteMisses == 1 \* missed shots of player A in a ledger snapshot
RandDen == 1         \* Math.random() takes the values k/RandDen, k < RandDen
AiRandDen == 25      \* the same, where the AI's choice of cell is explored
MaxAiMisses == 20    \* missed shots of the AI on the human's board

ClickXs == 0..4         \* columns of the enemy board the player clicks
ClickYs == {0}           \* rows of the enemy board the player clicks
AiShipYs == {0}          \* rows Math.random() picks for the AI ship
Salts == {7}             \* values generateRandomSalt returns
GameIds == {"g1"}        \* Date.now().toString() / the typed game id
HashBytes == 1..1        \* byte positions of a ledger commitment

Cells == 0..(GridSide * GridSide - 1)
Coords == 0..(GridSide - 1)
NoRole == "none"
NoId == "null"
NoHash == << >>
NoSalt == 0

EmptyGrid == [c \in Cells |-> CELL_EMPTY]

(* Variant of generateGrid with rows and columns exchanged.                *)
generateGrid_Transposed(shipX, shipY, isHorizontal) ==
  [c \in Cells |->
     IF \E i \in 0..(shipLength - 1) :
          LET x == IF isHorizontal THEN shipX + i ELSE shipX
              y == IF isHorizontal THEN shipY ELSE shipY + i
          IN  x < GridSide /\ y < GridSide /\ c = x * GridSide + y
     THEN CELL_SHIP ELSE CELL_EMPTY]

(* generateGrid: the four cells of the ship, each written only if it lies  *)
(* inside the board.                                                       *)
generateGrid(shipX, shipY, isHorizontal) ==
  [c \in Cells |->
     IF \E i \in 0..(shipLength - 1) :
          LET x == IF isHorizontal THEN shipX + i ELSE shipX
              y == IF isHorizontal THEN shipY ELSE shipY + i
          IN  x < GridSide /\ y < GridSide /\ c = y * GridSide + x
     THEN CELL_SHIP ELSE CELL_EMPTY]

HitCount(g) == Cardinality({c \in Cells : g[c] = CELL_HIT})

Attacked(v) == v = CELL_HIT \/ v = CELL_MISS
Unattacked(v) == v = CELL_EMPTY \/ v = CELL_SHIP

(* The store as created by zustand's create(): the initial state, which is *)
(* also what reset() writes.                                               *)
InitialStore ==
  [gameId |-> NoId, playerRole |-> NoRole, gameStatus |-> WAITING,
   currentTurn |-> 1, winner |-> NoRole,
   gridA |-> EmptyGrid, boardHashA |-> NoHash,
   gridB |-> EmptyGrid, boardHashB |-> NoHash,
   shipX |-> 0, shipY |-> 0, orientation |-> "horizontal",
   salt |-> NoSalt, isShipPlaced |-> FALSE]

(* ---------------------------------------------------------------------- *)
(* Commitments                                                             *)
(* ---------------------------------------------------------------------- *)
(* The circuit's return value: an opaque field element, a function of the  *)
(* placement and the salt.                                                 *)
PedersenField(x, y, o, salt) == 1 + x + GridSide * y + 25 * o + 50 * (salt % 4)

HexDigits(v) == IF v < 16 THEN <<v>> ELSE <<v \div 16, v % 16>>

PadStart(s, n) == [k \in 1..(IF Len(s) < n THEN n ELSE Len(s)) |->
                     IF Len(s) >= n THEN s[k]
                     ELSE IF k <= n - Len(s) THEN 0 ELSE s[k - (n - Len(s))]]

(* generateBoardHash: the field element as a hex string, left-padded.      *)
generateBoardHash(x, y, o, salt) ==
  PadStart(HexDigits(PedersenField(x, y, o, salt)), 2 * Cardinality(HashBytes))

(* toHex of the sync effect: two hex digits per byte.                      *)
toHex(arr) ==
  [k \in 1..(2 * Len(arr)) |->
     LET b == arr[(k + 1) \div 2]
     IN  IF k % 2 = 1 THEN b \div 16 ELSE b % 16]

AiHiddenHash == <<16, 16>>

(* ---------------------------------------------------------------------- *)
(* Ledger snapshots, as decodeGameState returns them                       *)
(* ---------------------------------------------------------------------- *)
(* The placements of the remote opponent: player A's ship horizontal from  *)
(* (0,0), player B's ship vertical from (4,0).                             *)
OpponentA == generateGrid(0, 0, TRUE)

OpponentB == generateGrid(4, 0, FALSE)

(* fromHex: Buffer.from(boardHash, 'hex'), one byte per two hex digits.    *)
fromHex(h) == [i \in 1..(Len(h) \div 2) |-> 16 * h[2 * i - 1] + h[2 * i]]

(* Board of a ledger player whose placement is the grid ship: the first h  *)
(* ship cells hit and the last m free cells missed.                        *)
LedgerGrid(ship, h, m) ==
  LET ships == {c \in Cells : ship[c] = CELL_SHIP}
      free == Cells \ ships
  IN  [c \in Cells |->
         IF c \in ships
         THEN (IF Cardinality({d \in ships : d < c}) < h
               THEN CELL_HIT ELSE CELL_SHIP)
         ELSE IF Cardinality({d \in free : d > c}) < m
              THEN CELL_MISS ELSE CELL_EMPTY]

(* The decoded account of a ledger game between placements shipA and shipB *)
(* with commitments hashA and hashB (bytes).                               *)
LedgerSnap(shipA, hashA, shipB, hashB, joined, hB, mB, hA) ==
  [gameStatus |-> IF ~joined THEN ONLINE_WAITING
                  ELSE IF hB >= shipLength THEN 2
                  ELSE IF hA >= shipLength THEN 3 ELSE ONLINE_ACTIVE,
   currentTurn |-> IF hB + mB = hA THEN 1 ELSE 2,
   gridA |-> LedgerGrid(shipA, hA, 0),
   gridB |-> IF joined THEN LedgerGrid(shipB, hB, mB) ELSE EmptyGrid,
   boardHashA |-> hashA,
   boardHashB |-> IF joined THEN hashB ELSE [i \in HashBytes |-> 0]]

(* The placement a fresh store holds: horizontal from (0,0).               *)
DefaultPlacement(s) ==
  s.shipX = 0 /\ s.shipY = 0 /\ s.orientation = "horizontal"

(* The states a ledger game passes through when the local player, of role  *)
(* B or not, sent the default placement: created, joined, then shots in    *)
(* turn (A first; A hits hB times and misses mB times, B hits hA times)    *)
(* until one ship has four hits.  The other side is the remote opponent.   *)
LedgerStates(isB) ==
  LET own == generateGrid(0, 0, TRUE)
      ownHash == fromHex(generateBoardHash(0, 0, 0, CHOOSE salt \in Salts : TRUE))
      shipA == IF isB THEN OpponentA ELSE own
      shipB == IF isB THEN own ELSE OpponentB
      hashA == IF isB THEN [i \in HashBytes |-> 171] ELSE ownHash
      hashB == IF isB THEN ownHash ELSE [i \in HashBytes |-> 205]
  IN  {LedgerSnap(shipA, hashA, shipB, hashB, FALSE, 0, 0, 0)} \cup
      {LedgerSnap(shipA, hashA, shipB, hashB, TRUE, q[1], q[2], q[3]) :
         q \in {q \in (0..shipLength) \X (0..MaxRemoteMisses) \X (0..shipLength) :
                  /\ (q[1] + q[2]) - q[3] \in {0, 1}
                  /\ ~(q[1] = shipLength /\ q[3] = shipLength)
                  /\ q[1] = shipLength => q[1] + q[2] = q[3] + 1
                  /\ q[3] = shipLength => q[1] + q[2] = q[3]}}

SnapshotsA == LedgerStates(FALSE)

SnapshotsB == LedgerStates(TRUE)

(* What a poll of the session s may return: any state of its ledger game,  *)
(* in any order.                                                           *)
Snapshots(s) == IF s.playerRole = "B" THEN SnapshotsB ELSE SnapshotsA

(* store .. pollTimer are the program's state (pollTimer counts the live   *)
(* interval timers of useGamePolling), account is the compressed account   *)
(* the ledger holds for the game; syncDue, aiDue and pollDue say           *)
(* which effects React has still to run.  History: lastOp names the last   *)
(* step,                                                                   *)
(* before is the store that a merge, an attack click/timer or a create or  *)
(* join handler found (for a handler that failed with no other step since  *)
(* it began: the store it found when it began; after any other step before *)
(* equals the store), attackers holds the turn values of the last two      *)
(* attacks applied in the current session (0: none).                       *)
VARIABLES store, onlineGameState, gameMode, aiThinking, aiTimer, loading,
          pending, inflight, pollTimer, account, syncDue, aiDue, pollDue,
          lastOp, before, attackers

vars == <<store, onlineGameState, gameMode, aiThinking, aiTimer, loading,
          pending, inflight, pollTimer, account, syncDue, aiDue, pollDue,
          lastOp, before, attackers>>

NoPending == [op |-> "none", id |-> NoId]

(* rpc.getCompressedAccount found nothing.  The exploration of Spec does   *)
(* not look into the account bytes: its polls deliver decoded snapshots.   *)
NoAccount == [found |-> FALSE, data |-> << >>]

Init ==
  /\ store = InitialStore
  /\ onlineGameState = << >>
  /\ gameMode = "ai"
  /\ aiThinking = FALSE
  /\ aiTimer = FALSE
  /\ loading = FALSE
  /\ pending = NoPending
  /\ inflight = 0
  /\ pollTimer = 0
  /\ account = NoAccount
  /\ syncDue = FALSE
  /\ aiDue = FALSE
  /\ pollDue = FALSE
  /\ lastOp = "init"
  /\ before = InitialStore
  /\ attackers = <<0, 0>>


(* ---------------------------------------------------------------------- *)
(* Store actions (lib/gameStore.ts)                                        *)
(* ---------------------------------------------------------------------- *)
setShipPosition(s, x, y) == [s EXCEPT !.shipX = x, !.shipY = y]

setOrientation(s, o) == [s EXCEPT !.orientation = o]

(* Variant of setSalt that also writes a commitment made with the salt.    *)
setSalt_AlsoCommits(s, salt) ==
  [s EXCEPT !.salt = salt,
            !.boardHashA = generateBoardHash(s.shipX, s.shipY, 0, salt)]

setSalt(s, salt) == [s EXCEPT !.salt = salt]

setGameId(s, id) == [s EXCEPT !.gameId = id]

(* Variant of createGame that places the ship on board B.                  *)
createGame_OnBoardB(s, hash, id) ==
  [s EXCEPT !.gameId = id,
            !.playerRole = "A",
            !.gridB = generateGrid(s.shipX, s.shipY, s.orientation = "horizontal"),
            !.boardHashA = hash,
            !.gameStatus = WAITING,
            !.currentTurn = 1,
            !.isShipPlaced = TRUE]

createGame(s, hash, id) ==
  [s EXCEPT !.gameId = id,
            !.playerRole = "A",
            !.gridA = generateGrid(s.shipX, s.shipY, s.orientation = "horizontal"),
            !.boardHashA = hash,
            !.gameStatus = WAITING,
            !.currentTurn = 1,
            !.isShipPlaced = TRUE]

joinGame(s, hash) ==
  [s EXCEPT !.playerRole = "B",
            !.gridB = generateGrid(s.shipX, s.shipY, s.orientation = "horizontal"),
            !.boardHashB = hash,
            !.gameStatus = ACTIVE,
            !.isShipPlaced = TRUE]

(* Variant of attack that marks every attacked cell HIT.                   *)
attack_AlwaysHit(s, x, y, isHit) ==
  LET onB == s.currentTurn = 1
      old == IF onB THEN s.gridB ELSE s.gridA
      targetGrid == [old EXCEPT ![y * GridSide + x] = CELL_HIT]
      isWin == HitCount(targetGrid) >= 4
      s1 == IF onB THEN [s EXCEPT !.gridB = targetGrid]
                   ELSE [s EXCEPT !.gridA = targetGrid]
      s2 == [s1 EXCEPT !.currentTurn = IF s.currentTurn = 1 THEN 2 ELSE 1]
  IN  IF isWin
      THEN [s2 EXCEPT !.gameStatus = FINISHED,
                      !.winner = IF s.currentTurn = 1 THEN "A" ELSE "B"]
      ELSE s2

(* Variant of attack that declares the win one hit early.                  *)
attack_WinAtThree(s, x, y, isHit) ==
  LET onB == s.currentTurn = 1
      old == IF onB THEN s.gridB ELSE s.gridA
      targetGrid == [old EXCEPT ![y * GridSide + x] =
                        IF isHit THEN CELL_HIT ELSE CELL_MISS]
      isWin == HitCount(targetGrid) >= 3
      s1 == IF onB THEN [s EXCEPT !.gridB = targetGrid]
                   ELSE [s EXCEPT !.gridA = targetGrid]
      s2 == [s1 EXCEPT !.currentTurn = IF s.currentTurn = 1 THEN 2 ELSE 1]
  IN  IF isWin
      THEN [s2 EXCEPT !.gameStatus = FINISHED,
                      !.winner = IF s.currentTurn = 1 THEN "A" ELSE "B"]
      ELSE s2

(* attack: the target grid is chosen by the turn alone; the cell is        *)
(* overwritten, the turn flips, four HIT cells finish the game.            *)
attack(s, x, y, isHit) ==
  LET onB == s.currentTurn = 1
      old == IF onB THEN s.gridB ELSE s.gridA
      targetGrid == [old EXCEPT ![y * GridSide + x] =
                        IF isHit THEN CELL_HIT ELSE CELL_MISS]
      isWin == HitCount(targetGrid) >= 4
      s1 == IF onB THEN [s EXCEPT !.gridB = targetGrid]
                   ELSE [s EXCEPT !.gridA = targetGrid]
      s2 == [s1 EXCEPT !.currentTurn = IF s.currentTurn = 1 THEN 2 ELSE 1]
  IN  IF isWin
      THEN [s2 EXCEPT !.gameStatus = FINISHED,
                      !.winner = IF s.currentTurn = 1 THEN "A" ELSE "B"]
      ELSE s2

reset(s) == InitialStore

(* ---------------------------------------------------------------------- *)
(* The sync effect of GamePage: merge of the polled snapshot r into s      *)
(* ---------------------------------------------------------------------- *)
TranslateStatus(r) ==
  IF r.gameStatus = ONLINE_WAITING THEN WAITING
  ELSE IF r.gameStatus = ONLINE_ACTIVE THEN ACTIVE ELSE FINISHED

NewWinner(r) ==
  IF r.gameStatus = 3 THEN "B" ELSE IF r.gameStatus = 2 THEN "A" ELSE NoRole


(* Variant of NewStatus without the PREVENT REVERSION branch.              *)
NewStatus_NoGuard(s, r) == TranslateStatus(r)

(* PREVENT REVERSION: a local ACTIVE ignores a polled WAITING.             *)
NewStatus(s, r) ==
  IF s.gameStatus = ACTIVE /\ TranslateStatus(r) = WAITING
  THEN ACTIVE ELSE TranslateStatus(r)


(* Variant of NewGridA that ignores the role B swap.                       *)
NewGridA_NoSwap(s, r) ==
  IF s.playerRole \in {"A", "B"} THEN r.gridA ELSE s.gridA

NewGridA(s, r) ==
  IF s.playerRole = "A" THEN r.gridA
  ELSE IF s.playerRole = "B" THEN r.gridB ELSE s.gridA

NewGridB(s, r) ==
  IF s.playerRole = "A" THEN r.gridB
  ELSE IF s.playerRole = "B" THEN r.gridA ELSE s.gridB


(* Variant of FullSync that writes on every poll.                          *)
FullSync_Always(s, r) == TRUE

FullSync(s, r) ==
  \/ s.gameStatus # NewStatus(s, r)
  \/ s.currentTurn # r.currentTurn
  \/ s.boardHashB = NoHash
  \/ s.winner # NewWinner(r)


(* Variant of gridsChanged that never sees a difference.                   *)
gridsChanged_Never(s, r) == FALSE

gridsChanged(s, r) == NewGridA(s, r) # s.gridA \/ NewGridB(s, r) # s.gridB

SyncEffect(s, r) ==
  IF FullSync(s, r)
  THEN [s EXCEPT !.gameStatus = NewStatus(s, r),
                 !.currentTurn = r.currentTurn,
                 !.gridA = NewGridA(s, r),
                 !.gridB = NewGridB(s, r),
                 !.boardHashA = toHex(r.boardHashA),
                 !.boardHashB = toHex(r.boardHashB),
                 !.winner = NewWinner(r)]
  ELSE IF gridsChanged(s, r)
  THEN [s EXCEPT !.gridA = NewGridA(s, r),
                 !.gridB = NewGridB(s, r),
                 !.boardHashA = toHex(r.boardHashA),
                 !.boardHashB = toHex(r.boardHashB),
                 !.winner = NewWinner(r)]
  ELSE s

(* Whether the effect calls useGameStore.setState at all.                  *)
SyncWrites(s, r) == FullSync(s, r) \/ gridsChanged(s, r)

(* Dependency lists of the two effects.                                    *)
SyncDeps(s) == <<s.playerRole, s.gameStatus, s.currentTurn, s.winner>>

AiDeps(s, m) == <<s.currentTurn, s.gameStatus, s.playerRole, s.gridA, m>>

(* useGamePolling(store.gameId, isOnlineGame, 3000): the dependencies of   *)
(* its two effects (fetchGameState changes with gameId).                   *)
PollDeps(s, m) == <<m = "online" /\ s.gameId # NoId, s.gameId>>

(* Guards of the AI opponent effect.                                       *)
AiGuard(s, m) ==
  m = "ai" /\ s.gameStatus = ACTIVE /\ s.playerRole = "A" /\ s.currentTurn = 2


(* ---------------------------------------------------------------------- *)
(* What GamePage renders                                                   *)
(* ---------------------------------------------------------------------- *)
(* Variant of Screen that keeps the boards up after the game has finished. *)
Screen_BoardsWhenFinished(s, ld) ==
  IF ld THEN "loading"
  ELSE IF s.gameId = NoId /\ ~s.isShipPlaced THEN "select"
  ELSE IF s.gameStatus = WAITING /\ s.playerRole = "A" THEN "waiting"
  ELSE IF s.gameStatus = ACTIVE \/ s.gameStatus = FINISHED THEN "active"
  ELSE "blank"

(* Variant of Screen without the loading screen.                          *)
Screen_NoLoading(s, ld) ==
  IF s.gameId = NoId /\ ~s.isShipPlaced /\ ~ld THEN "select"
  ELSE IF s.gameStatus = WAITING /\ s.playerRole = "A" THEN "waiting"
  ELSE IF s.gameStatus = ACTIVE THEN "active"
  ELSE IF s.gameStatus = FINISHED THEN "finished"
  ELSE "blank"

Screen(s, ld) ==
  IF ld THEN "loading"
  ELSE IF s.gameId = NoId /\ ~s.isShipPlaced THEN "select"
  ELSE IF s.gameStatus = WAITING /\ s.playerRole = "A" THEN "waiting"
  ELSE IF s.gameStatus = ACTIVE THEN "active"
  ELSE IF s.gameStatus = FINISHED THEN "finished"
  ELSE "blank"

isMyTurn(s) ==
  \/ s.playerRole = "A" /\ s.currentTurn = 1
  \/ s.playerRole = "B" /\ s.currentTurn = 2

(* Variant of canClick that lets a click on an attacked cell through.      *)
canClick_AnyCell(s, thinking, x, y) == isMyTurn(s) /\ ~thinking

(* GameBoard: a cell of the enemy board passes the click on only in attack *)
(* mode and only while it is EMPTY or SHIP.                                *)
canClick(s, thinking, x, y) ==
  /\ isMyTurn(s) /\ ~thinking
  /\ Unattacked(s.gridB[y * GridSide + x])

isValidPlacement(s) ==
  IF s.orientation = "horizontal" THEN s.shipX + 4 <= 5 ELSE s.shipY + 4 <= 5

isOnlineGame == gameMode = "online" /\ store.gameId # NoId

Quiet == ~syncDue /\ ~aiDue /\ ~pollDue

NoHistory == before' = store' /\ UNCHANGED attackers

NewSession == before' = store' /\ attackers' = <<0, 0>>

Record(s0, s1) ==
  /\ before' = s0
  /\ attackers' = IF s1 # s0 THEN <<attackers[2], s0.currentTurn>> ELSE attackers

(* After a handler has written the store (and possibly the mode), React    *)
(* re-renders and schedules the effects whose dependencies changed.        *)
Schedule(s1, m1) ==
  /\ syncDue' = (SyncDeps(s1) # SyncDeps(store))
  /\ aiDue' = (AiDeps(s1, m1) # AiDeps(store, gameMode))
  /\ pollDue' = (PollDeps(s1, m1) # PollDeps(store, gameMode))


(* ---------------------------------------------------------------------- *)
(* User events                                                             *)
(* ---------------------------------------------------------------------- *)
KeepPage ==
  UNCHANGED <<onlineGameState, aiThinking, aiTimer, inflight, pollTimer, account>>

(* Mode buttons of the selection screen.                                   *)
SetGameMode(m) ==
  /\ Quiet /\ Screen(store, loading) = "select"
  /\ m # gameMode
  /\ gameMode' = m
  /\ Schedule(store, m)
  /\ lastOp' = "SetGameMode"
  /\ UNCHANGED <<store, loading, pending>> /\ KeepPage
  /\ NoHistory

(* ShipPlacer: the two range inputs and the two orientation buttons.       *)
SliderX(v) ==
  /\ Quiet /\ Screen(store, loading) = "select"
  /\ v <= (IF store.orientation = "horizontal" THEN 1 ELSE 4)
  /\ v # store.shipX
  /\ store' = setShipPosition(store, v, store.shipY)
  /\ Schedule(store', gameMode)
  /\ lastOp' = "SliderX"
  /\ UNCHANGED <<gameMode, loading, pending>> /\ KeepPage
  /\ NoHistory

SliderY(v) ==
  /\ Quiet /\ Screen(store, loading) = "select"
  /\ v <= (IF store.orientation = "horizontal" THEN 4 ELSE 1)
  /\ v # store.shipY
  /\ store' = setShipPosition(store, store.shipX, v)
  /\ Schedule(store', gameMode)
  /\ lastOp' = "SliderY"
  /\ UNCHANGED <<gameMode, loading, pending>> /\ KeepPage
  /\ NoHistory

(* Variant of ClickHorizontal that leaves the position as it is.           *)
ClickHorizontal_NoClamp ==
  /\ Quiet /\ Screen(store, loading) = "select"
  /\ store.orientation # "horizontal"
  /\ store' = setOrientation(store, "horizontal")
  /\ Schedule(store', gameMode)
  /\ lastOp' = "ClickHorizontal"
  /\ UNCHANGED <<gameMode, loading, pending>> /\ KeepPage
  /\ NoHistory

ClickHorizontal ==
  /\ Quiet /\ Screen(store, loading) = "select"
  /\ store.orientation # "horizontal"
  /\ store' = LET s1 == setOrientation(store, "horizontal")
              IN  IF store.shipX > 1 THEN setShipPosition(s1, 1, store.shipY) ELSE s1
  /\ Schedule(store', gameMode)
  /\ lastOp' = "ClickHorizontal"
  /\ UNCHANGED <<gameMode, loading, pending>> /\ KeepPage
  /\ NoHistory

ClickVertical ==
  /\ Quiet /\ Screen(store, loading) = "select"
  /\ store.orientation # "vertical"
  /\ store' = LET s1 == setOrientation(store, "vertical")
              IN  IF store.shipY > 1 THEN setShipPosition(s1, store.shipX, 1) ELSE s1
  /\ Schedule(store', gameMode)
  /\ lastOp' = "ClickVertical"
  /\ UNCHANGED <<gameMode, loading, pending>> /\ KeepPage
  /\ NoHistory

(* handleCreateGame up to its first await: the confirm button is enabled   *)
(* only for a placement that fits and while no ship is placed.             *)
CreateBegin(salt) ==
  /\ Quiet /\ Screen(store, loading) = "select"
  /\ isValidPlacement(store) /\ ~store.isShipPlaced
  /\ loading' = TRUE
  /\ store' = setSalt(store, salt)
  /\ pending' = [op |-> "create", id |-> NoId]
  /\ Schedule(store', gameMode)
  /\ lastOp' = "CreateBegin"
  /\ UNCHANGED gameMode /\ KeepPage
  /\ before' = store /\ UNCHANGED attackers

(* handleCreateGame after its awaits: the hash, and in online mode the     *)
(* transaction, succeeded (ok) or one of them threw.                       *)
CreateEnd(ok, id) ==
  /\ Quiet /\ pending.op = "create"
  /\ store' = IF ok
              THEN createGame(store,
                     generateBoardHash(store.shipX, store.shipY,
                        IF store.orientation = "horizontal" THEN 0 ELSE 1,
                        store.salt), id)
              ELSE store
  /\ loading' = FALSE
  /\ pending' = NoPending
  /\ Schedule(store', gameMode)
  /\ lastOp' = IF ok THEN "CreateGame" ELSE "CreateFailed"
  /\ UNCHANGED gameMode /\ KeepPage
  /\ before' = IF ~ok /\ lastOp = "CreateBegin" THEN before ELSE store
  /\ attackers' = IF ok THEN <<0, 0>> ELSE attackers

(* handleJoinGame up to its first await (online mode, a game id typed).    *)
JoinBegin(salt, id) ==
  /\ Quiet /\ Screen(store, loading) = "select"
  /\ gameMode = "online"
  /\ loading' = TRUE
  /\ store' = setSalt(store, salt)
  /\ pending' = [op |-> "join", id |-> id]
  /\ Schedule(store', gameMode)
  /\ lastOp' = "JoinBegin"
  /\ UNCHANGED gameMode /\ KeepPage
  /\ before' = store /\ UNCHANGED attackers

(* handleJoinGame after its awaits.  joinOnlineGameTx reads the game's     *)
(* account and throws unless its status is Waiting (remoteStatus = 0);     *)
(* the hash, the simulation, the send or the confirmation may throw as     *)
(* well (~txOk).  Only when nothing threw are joinGame, setGameId and the  *)
(* turn written.                                                           *)
JoinEnd(remoteStatus, txOk) ==
  LET ok == remoteStatus = ONLINE_WAITING /\ txOk
  IN  /\ Quiet /\ pending.op = "join"
      /\ ok => isValidPlacement(store)
      /\ store' = IF ok
                  THEN [setGameId(joinGame(store,
                          generateBoardHash(store.shipX, store.shipY,
                             IF store.orientation = "horizontal" THEN 0 ELSE 1,
                             store.salt)), pending.id)
                        EXCEPT !.currentTurn = 1]
                  ELSE store
      /\ loading' = FALSE
      /\ pending' = NoPending
      /\ Schedule(store', gameMode)
      /\ lastOp' = IF ok THEN "JoinGame"
                   ELSE IF remoteStatus # ONLINE_WAITING THEN "JoinNotWaiting"
                   ELSE "JoinFailed"
      /\ UNCHANGED gameMode /\ KeepPage
      /\ before' = IF ~ok /\ lastOp = "JoinBegin" THEN before ELSE store
      /\ attackers' = IF ok THEN <<0, 0>> ELSE attackers

(* handleStartVsAI: the AI ship is horizontal at a random position.        *)
StartVsAI(aiShipX, aiShipY) ==
  /\ Quiet /\ Screen(store, loading) = "waiting"
  /\ gameMode = "ai"
  /\ store' = [store EXCEPT
                 !.gridB = [c \in Cells |->
                              IF \E i \in 0..3 : c = aiShipY * 5 + aiShipX + i
                              THEN CELL_SHIP ELSE CELL_EMPTY],
                 !.boardHashB = AiHiddenHash,
                 !.gameStatus = ACTIVE]
  /\ Schedule(store', gameMode)
  /\ lastOp' = "StartVsAI"
  /\ UNCHANGED <<gameMode, loading, pending>> /\ KeepPage
  /\ NoHistory

(* Cancel Game on the waiting screen.                                      *)
CancelGame ==
  /\ Quiet /\ Screen(store, loading) = "waiting"
  /\ store' = reset(store)
  /\ Schedule(store', gameMode)
  /\ lastOp' = "CancelGame"
  /\ UNCHANGED <<gameMode, loading, pending>> /\ KeepPage
  /\ NewSession

(* Play Again on the finished screen: reset and reload of the page.        *)
PlayAgain ==
  /\ Quiet /\ Screen(store, loading) = "finished"
  /\ store' = reset(store)
  /\ onlineGameState' = << >>
  /\ gameMode' = "ai"
  /\ aiThinking' = FALSE /\ aiTimer' = FALSE
  /\ loading' = FALSE /\ pending' = NoPending
  /\ inflight' = 0
  /\ pollTimer' = 0
  /\ UNCHANGED account
  /\ syncDue' = FALSE /\ aiDue' = FALSE /\ pollDue' = FALSE
  /\ lastOp' = "PlayAgain"
  /\ NewSession

(* A click on cell (x, y) of the enemy board of the active screen, and     *)
(* handleAttack behind it.  In AI mode the attack is applied to the store; *)
(* in online mode a transaction is started and the store is left to the    *)
(* polling.                                                                *)
handleAttackApplies(x, y) ==
  /\ canClick(store, aiThinking, x, y)
  /\ gameMode = "ai"
  /\ ~aiThinking

handleAttackSubmits(x, y) ==
  /\ canClick(store, aiThinking, x, y)
  /\ gameMode = "online"
  /\ store.gameStatus = ACTIVE
  /\ store.gameId # NoId
  /\ isMyTurn(store)

ClickEnemyCell(x, y) ==
  /\ Quiet /\ Screen(store, loading) = "active"
  /\ IF handleAttackApplies(x, y)
     THEN /\ store' = attack(store, x, y, store.gridB[y * GridSide + x] = CELL_SHIP)
          /\ lastOp' = "Attack"
          /\ Record(store, store')
          /\ UNCHANGED <<loading, pending>>
     ELSE IF handleAttackSubmits(x, y)
     THEN /\ loading' = TRUE
          /\ pending' = [op |-> "attack", id |-> store.gameId]
          /\ lastOp' = "AttackSubmitted"
          /\ UNCHANGED <<store, attackers>>
          /\ before' = store
     ELSE /\ lastOp' = IF Attacked(store.gridB[y * GridSide + x])
                       THEN "AttackRepeated" ELSE "AttackRejected"
          /\ UNCHANGED <<store, loading, pending, attackers>>
          /\ before' = store
  /\ Schedule(store', gameMode)
  /\ UNCHANGED gameMode /\ KeepPage

(* The attack transaction is confirmed or fails: only the loading flag     *)
(* changes.                                                                *)
AttackEnd ==
  /\ Quiet /\ pending.op = "attack"
  /\ loading' = FALSE
  /\ pending' = NoPending
  /\ lastOp' = "AttackEnd"
  /\ UNCHANGED <<store, gameMode, syncDue, aiDue, pollDue>> /\ KeepPage
  /\ NoHistory


(* ---------------------------------------------------------------------- *)
(* Timers, polling and effects                                             *)
(* ---------------------------------------------------------------------- *)
(* Variant of attackableCells that spares the cells of the ship.           *)
attackableCells_OnlyEmpty(g) == {c \in Cells : g[c] = CELL_EMPTY}

attackableCells(g) == {c \in Cells : g[c] = CELL_EMPTY \/ g[c] = CELL_SHIP}

(* The n-th element (from 0) of the cells of S in index order.             *)
Nth(S, n) == CHOOSE c \in S : Cardinality({d \in S : d < c}) = n

(* Variant of RandomIndex that always takes the first element.             *)
RandomIndex_First(u, length) == 0

(* Math.floor(Math.random() * length) for Math.random() = u[1] / u[2].     *)
RandomIndex(u, length) == (u[1] * length) \div u[2]

(* The timeout callback of the AI opponent effect.                         *)
AiMove(s, u) ==
  LET cells == attackableCells(s.gridA)
  IN  IF Cardinality(cells) > 0
      THEN LET randomIdx == Nth(cells, RandomIndex(u, Cardinality(cells)))
           IN  attack(s, randomIdx % 5, randomIdx \div 5,
                      s.gridA[randomIdx] = CELL_SHIP)
      ELSE s

AiTimer(u) ==
  /\ Quiet /\ aiTimer
  /\ store' = AiMove(store, u)
  /\ aiThinking' = FALSE
  /\ aiTimer' = FALSE
  /\ Schedule(store', gameMode)
  /\ lastOp' = IF store' # store THEN "AiAttack" ELSE "AiNoMove"
  /\ UNCHANGED <<onlineGameState, gameMode, loading, pending, inflight,
                 pollTimer, account>>
  /\ Record(store, store')

(* What getGameByGameId returns when the account is missing or the lookup  *)
(* or the decoding threw.                                                  *)
NoResult == [found |-> FALSE]

(* Variant of fetchGameState that drops the held snapshot on a failure.    *)
fetchGameState_ClearsOnFailure(gameState, result) ==
  IF result.found THEN <<result.state>> ELSE << >>

(* fetchGameState of useGamePolling: setGameState(result.state) only when  *)
(* getGameByGameId returned a result; the new value of the hook's          *)
(* gameState.                                                              *)
fetchGameState(gameState, result) ==
  IF result.found THEN <<result.state>> ELSE gameState

(* useGamePolling: fetchGameState is called, by the initial-fetch effect   *)
(* that ran together with the effect that set the interval timer, or by a  *)
(* tick of that timer; it returns at once when the game id is null.        *)
(* Explored for the sessions that sent the default placement, whose ledger *)
(* states LedgerStates gives.                                              *)
PollStart ==
  /\ Quiet /\ pollTimer > 0
  /\ store.gameId # NoId
  /\ DefaultPlacement(store)
  /\ inflight < MaxInflight
  /\ inflight' = inflight + 1
  /\ lastOp' = "PollStart"
  /\ UNCHANGED <<store, onlineGameState, gameMode, aiThinking, aiTimer,
                 loading, pending, pollTimer, account, syncDue, aiDue, pollDue>>
  /\ NoHistory

(* The fetch resolves with a decoded record: setGameState(result.state).   *)
(* Nothing ties the resolution to the session that started the fetch.      *)
PollDone(r) ==
  /\ Quiet /\ inflight > 0
  /\ r \in Snapshots(store)
  /\ inflight' = inflight - 1
  /\ onlineGameState' = fetchGameState(onlineGameState, [found |-> TRUE, state |-> r])
  /\ syncDue' = TRUE
  /\ lastOp' = "PollDone"
  /\ UNCHANGED <<store, gameMode, aiThinking, aiTimer, loading, pending,
                 pollTimer, account, aiDue, pollDue>>
  /\ NoHistory

(* The fetch resolves with null (no account) or throws.                    *)
PollNone ==
  /\ Quiet /\ inflight > 0
  /\ inflight' = inflight - 1
  /\ onlineGameState' = fetchGameState(onlineGameState, NoResult)
  /\ lastOp' = "PollNone"
  /\ UNCHANGED <<store, gameMode, aiThinking, aiTimer,
                 loading, pending, pollTimer, account, syncDue, aiDue, pollDue>>
  /\ NoHistory

(* One commit of React: the effects whose dependencies changed run on the  *)
(* rendered store, the sync effect first, then the AI opponent effect.     *)
SyncRuns == syncDue /\ onlineGameState # << >>

(* Variant of PollingEffect whose cleanup does not clear the interval.     *)
PollingEffect_NoCleanup(timers, enabled) ==
  timers + (IF enabled THEN 1 ELSE 0)

(* The polling effect of useGamePolling on a change of its dependencies:   *)
(* the cleanup of its last run clears the interval that run had set, then  *)
(* a new interval is set if polling is enabled and the game id is set.     *)
PollingEffect(timers, enabled) ==
  (IF timers > 0 THEN timers - 1 ELSE 0) + (IF enabled THEN 1 ELSE 0)

RunEffects ==
  /\ syncDue \/ aiDue \/ pollDue
  /\ pollTimer' = IF pollDue THEN PollingEffect(pollTimer, isOnlineGame)
                  ELSE pollTimer
  /\ store' = IF SyncRuns THEN SyncEffect(store, onlineGameState[1]) ELSE store
  /\ IF aiDue
     THEN IF AiGuard(store, gameMode)
          THEN aiThinking' = TRUE /\ aiTimer' = TRUE
          ELSE aiTimer' = FALSE /\ UNCHANGED aiThinking
     ELSE UNCHANGED <<aiThinking, aiTimer>>
  /\ Schedule(store', gameMode)
  /\ lastOp' = IF SyncRuns
               THEN (IF SyncWrites(store, onlineGameState[1]) THEN "SyncWrite" ELSE "SyncSkip")
               ELSE "Effects"
  /\ UNCHANGED <<onlineGameState, gameMode, loading, pending, inflight, account>>
  /\ before' = store /\ UNCHANGED attackers

Next ==
  \/ \E m \in {"ai", "online"} : SetGameMode(m)
  \/ \E v \in 0..MaxSlider : SliderX(v)
  \/ \E v \in 0..MaxSlider : SliderY(v)
  \/ ClickHorizontal
  \/ ClickVertical
  \/ \E salt \in Salts : CreateBegin(salt)
  \/ \E ok \in BOOLEAN, id \in GameIds : CreateEnd(ok, id)
  \/ \E salt \in Salts, id \in GameIds : JoinBegin(salt, id)
  \/ \E remoteStatus \in 0..3, txOk \in BOOLEAN : JoinEnd(remoteStatus, txOk)
  \/ \E ax \in 0..1, ay \in AiShipYs : StartVsAI(ax, ay)
  \/ CancelGame
  \/ PlayAgain
  \/ \E x \in ClickXs, y \in ClickYs : ClickEnemyCell(x, y)
  \/ AttackEnd
  \/ \E k \in 0..(RandDen - 1) : AiTimer(<<k, RandDen>>)
  \/ PollStart
  \/ \E r \in SnapshotsA \cup SnapshotsB : PollDone(r)
  \/ PollNone
  \/ RunEffects

Spec == Init /\ [][Next]_vars


(* ---------------------------------------------------------------------- *)
(* The store actions createGame and joinGame on every placement            *)
(* ---------------------------------------------------------------------- *)
(* A fresh store in which setShipPosition and setOrientation have written  *)
(* any placement with 0 <= x, y <= 4 and setSalt a salt.                   *)
PlaceInit ==
  /\ \E x \in Coords, y \in Coords, o \in {"horizontal", "vertical"},
        salt \in Salts :
       store = setSalt(setOrientation(setShipPosition(InitialStore, x, y), o), salt)
  /\ onlineGameState = << >>
  /\ gameMode = "online"
  /\ aiThinking = FALSE
  /\ aiTimer = FALSE
  /\ loading = FALSE
  /\ pending = NoPending
  /\ inflight = 0
  /\ pollTimer = 0
  /\ account = NoAccount
  /\ syncDue = FALSE
  /\ aiDue = FALSE
  /\ pollDue = FALSE
  /\ lastOp = "init"
  /\ before = store
  /\ attackers = <<0, 0>>

PlaceFrame ==
  UNCHANGED <<onlineGameState, gameMode, aiThinking, aiTimer, loading,
              pending, inflight, pollTimer, account, syncDue, aiDue, pollDue,
              attackers>>

PlaceHash(s) ==
  generateBoardHash(s.shipX, s.shipY,
                    IF s.orientation = "horizontal" THEN 0 ELSE 1, s.salt)

(* useGameStore.getState().createGame(hash, pubkey)                        *)
PlaceCreate(id) ==
  /\ lastOp = "init"
  /\ store' = createGame(store, PlaceHash(store), id)
  /\ lastOp' = "createGame"
  /\ before' = store
  /\ PlaceFrame

(* useGameStore.getState().joinGame(hash, pubkey)                          *)
PlaceJoin ==
  /\ lastOp = "init"
  /\ store' = joinGame(store, PlaceHash(store))
  /\ lastOp' = "joinGame"
  /\ before' = store
  /\ PlaceFrame

PlaceNext ==
  \/ \E id \in GameIds : PlaceCreate(id)
  \/ PlaceJoin

PlaceSpec == PlaceInit /\ [][PlaceNext]_vars


(* ---------------------------------------------------------------------- *)
(* Decoding of the fetched account (lib/multiplayer.ts)                    *)
(* ---------------------------------------------------------------------- *)
(* buffer.slice(a, b): the bytes at the 0-based positions a .. b-1 that    *)
(* exist.                                                                  *)
BufSlice(buffer, a, b) ==
  SubSeq(buffer, a + 1, IF b < Len(buffer) THEN b ELSE Len(buffer))

(* Array.from(...): a 0-based array.                                       *)
ArrayFrom(s) == [c \in 0..(Len(s) - 1) |-> s[c + 1]]

(* buffer.readUInt8 / readBigUInt64LE throw a RangeError when the n bytes  *)
(* at offset do not lie inside the buffer.                                 *)
ReadThrows(buffer, offset, n) == offset + n > Len(buffer)

readUInt8(buffer, offset) == buffer[offset + 1]

(* readBigUInt64LE: the number whose base-256 digits, most significant     *)
(* first, are the eight bytes in reverse order.                            *)
readBigUInt64LE(buffer, offset) == [k \in 1..8 |-> buffer[offset + 9 - k]]

(* Variant of decodeGameState that never skips a discriminator.            *)
decodeGameState_NoDiscriminator(data) ==
  LET offset0 == 0
      offset1 == offset0 + 8
      offset2 == offset1 + 32
      offset3 == offset2 + 32
      offset4 == offset3 + 1
      offset5 == offset4 + 1
      offset6 == offset5 + 25
      offset7 == offset6 + 32
      offset8 == offset7 + 1
      offset9 == offset8 + 25
      offset10 == offset9 + 32
  IN  IF \/ ReadThrows(data, offset0, 8) \/ ReadThrows(data, offset3, 1)
         \/ ReadThrows(data, offset4, 1) \/ ReadThrows(data, offset7, 1)
         \/ ReadThrows(data, offset10, 1)
      THEN [threw |-> TRUE]
      ELSE [threw |-> FALSE,
            gameId |-> readBigUInt64LE(data, offset0),
            playerA |-> BufSlice(data, offset1, offset1 + 32),
            playerB |-> BufSlice(data, offset2, offset2 + 32),
            currentTurn |-> readUInt8(data, offset3),
            gameStatus |-> readUInt8(data, offset4),
            gridA |-> ArrayFrom(BufSlice(data, offset5, offset5 + 25)),
            boardHashA |-> BufSlice(data, offset6, offset6 + 32),
            hitsA |-> readUInt8(data, offset7),
            gridB |-> ArrayFrom(BufSlice(data, offset8, offset8 + 25)),
            boardHashB |-> BufSlice(data, offset9, offset9 + 32),
            hitsB |-> readUInt8(data, offset10)]

(* decodeGameState: the fields are read one after the other, offset        *)
(* advancing by the size of each; a buffer of GAME_STATE_SIZE + 8 bytes or *)
(* more is taken to start with an 8-byte discriminator.                    *)
decodeGameState(data) ==
  LET hasDiscriminator == Len(data) >= GAME_STATE_SIZE + 8
      offset0 == IF hasDiscriminator THEN 8 ELSE 0
      offset1 == offset0 + 8
      offset2 == offset1 + 32
      offset3 == offset2 + 32
      offset4 == offset3 + 1
      offset5 == offset4 + 1
      offset6 == offset5 + 25
      offset7 == offset6 + 32
      offset8 == offset7 + 1
      offset9 == offset8 + 25
      offset10 == offset9 + 32
  IN  IF \/ ReadThrows(data, offset0, 8) \/ ReadThrows(data, offset3, 1)
         \/ ReadThrows(data, offset4, 1) \/ ReadThrows(data, offset7, 1)
         \/ ReadThrows(data, offset10, 1)
      THEN [threw |-> TRUE]
      ELSE [threw |-> FALSE,
            gameId |-> readBigUInt64LE(data, offset0),
            playerA |-> BufSlice(data, offset1, offset1 + 32),
            playerB |-> BufSlice(data, offset2, offset2 + 32),
            currentTurn |-> readUInt8(data, offset3),
            gameStatus |-> readUInt8(data, offset4),
            gridA |-> ArrayFrom(BufSlice(data, offset5, offset5 + 25)),
            boardHashA |-> BufSlice(data, offset6, offset6 + 32),
            hitsA |-> readUInt8(data, offset7),
            gridB |-> ArrayFrom(BufSlice(data, offset8, offset8 + 25)),
            boardHashB |-> BufSlice(data, offset9, offset9 + 32),
            hitsB |-> readUInt8(data, offset10)]

(* getGameByGameId: null when there is no account or anything threw.       *)
getGameByGameId(acc) ==
  IF ~acc.found THEN NoResult
  ELSE LET state == decodeGameState(acc.data)
       IN  IF state.threw THEN NoResult ELSE [found |-> TRUE, state |-> state]

(* ---------------------------------------------------------------------- *)
(* Polls of an online session against any account data                     *)
(* ---------------------------------------------------------------------- *)
Fill(n, b) == [i \in 1..n |-> b]

Ramp(n, b) == [i \in 1..n |-> b + i]

GridBytes(g) == [i \in 1..25 |-> g[i - 1]]

(* 190 bytes in the layout of the ledger's GameState: game_id, player_a,   *)
(* player_b, current_turn, game_status, grid_a, board_hash_a, hits_a,      *)
(* grid_b, board_hash_b, hits_b.  cell is the value of cell 24 of grid_a.  *)
AccountBody(turn, status, cell) ==
  Ramp(8, 20) \o Ramp(32, 40) \o Ramp(32, 80)
    \o <<turn, status>>
    \o GridBytes([OpponentA EXCEPT ![24] = cell]) \o Ramp(32, 170) \o <<5>>
    \o GridBytes(IF status = ONLINE_WAITING THEN EmptyGrid ELSE OpponentB)
    \o (IF status = ONLINE_WAITING THEN Fill(32, 0) ELSE Ramp(32, 205)) \o <<6>>

Discriminator == <<91, 92, 93, 94, 95, 96, 97, 98>>

(* The forms in which the bytes of a record arrive: as they are, behind a  *)
(* discriminator, followed by three more bytes, or cut off.                *)
AccountForms(body) ==
  {body, Discriminator \o body, body \o <<0, 0, 0>>,
   SubSeq(body, 1, GAME_STATE_SIZE - 1), SubSeq(body, 1, 100), << >>}

Turns == {1, 2, 9}
Statuses == {0, 1, 2, 3, 7}
CellBytes == {CELL_EMPTY, 9}

Accounts ==
  {NoAccount} \cup
  {[found |-> TRUE, data |-> d] :
     d \in UNION {AccountForms(AccountBody(q[1], q[2], q[3])) :
                    q \in Turns \X Statuses \X CellBytes}}

(* An online session of player A waiting for an opponent, and one of       *)
(* player B who has joined; both sent the default placement.               *)
OnlineSessions ==
  LET salt == CHOOSE s \in Salts : TRUE
      id == CHOOSE g \in GameIds : TRUE
      placed == setSalt(InitialStore, salt)
  IN  {createGame(placed, PlaceHash(placed), id),
       [setGameId(joinGame(placed, PlaceHash(placed)), id) EXCEPT !.currentTurn = 1]}

(* A fetch is in flight; the hook holds no snapshot yet or the one of the  *)
(* last successful fetch.                                                  *)
DecodeInit ==
  /\ store \in OnlineSessions
  /\ onlineGameState \in
       {<< >>, <<decodeGameState(AccountBody(1, ONLINE_WAITING, CELL_EMPTY))>>}
  /\ account \in Accounts
  /\ gameMode = "online"
  /\ aiThinking = FALSE
  /\ aiTimer = FALSE
  /\ loading = FALSE
  /\ pending = NoPending
  /\ inflight = 1
  /\ pollTimer = 1
  /\ syncDue = FALSE
  /\ aiDue = FALSE
  /\ pollDue = FALSE
  /\ lastOp = "PollStart"
  /\ before = store
  /\ attackers = <<0, 0>>

(* The fetch resolves: getGameByGameId on the account, then the rest of    *)
(* fetchGameState.                                                         *)
DecodeFetch ==
  LET result == getGameByGameId(account)
  IN  /\ Quiet /\ inflight > 0
      /\ inflight' = inflight - 1
      /\ onlineGameState' = fetchGameState(onlineGameState, result)
      /\ syncDue' = result.found
      /\ lastOp' = IF result.found THEN "PollDone" ELSE "PollNone"
      /\ UNCHANGED <<store, gameMode, aiThinking, aiTimer, loading, pending,
                     pollTimer, account, aiDue, pollDue>>
      /\ NoHistory

DecodeNext ==
  \/ DecodeFetch
  \/ RunEffects
  \/ PollStart

DecodeSpec == DecodeInit /\ [][DecodeNext]_vars


(* ---------------------------------------------------------------------- *)
(* The AI's move on any board of the human                                 *)
(* ---------------------------------------------------------------------- *)
(* Placements of the human's ship.                                         *)
AiOwnShips ==
  {generateGrid(0, 0, TRUE), generateGrid(1, 0, TRUE), generateGrid(4, 1, FALSE)}

(* An AI game in which the human has just attacked for the (n+1)-th time   *)
(* and the AI has attacked n = h + m times (h hits, m misses) before: the  *)
(* game is Active, the turn is the AI's.                                   *)
AiGame(ship, h, m) ==
  LET n == h + m
      hb == IF n + 1 < shipLength THEN n + 1 ELSE shipLength - 1
      salt == CHOOSE s \in Salts : TRUE
      id == CHOOSE g \in GameIds : TRUE
      placed == createGame(setSalt(InitialStore, salt),
                           generateBoardHash(0, 0, 0, salt), id)
  IN  [placed EXCEPT !.gridA = LedgerGrid(ship, h, m),
                     !.gridB = LedgerGrid(generateGrid(0, 0, TRUE), hb, n + 1 - hb),
                     !.boardHashB = AiHiddenHash,
                     !.gameStatus = ACTIVE,
                     !.currentTurn = 2]

AiGames ==
  {AiGame(q[1], q[2], q[3]) :
     q \in {q \in AiOwnShips \X (0..(shipLength - 1)) \X (0..MaxAiMisses) :
              q[2] + q[3] <= 20}}

(* The AI opponent effect has run on such a game and set its timeout.      *)
AiInit ==
  /\ store \in AiGames
  /\ onlineGameState = << >>
  /\ gameMode = "ai"
  /\ aiThinking = TRUE
  /\ aiTimer = TRUE
  /\ loading = FALSE
  /\ pending = NoPending
  /\ inflight = 0
  /\ pollTimer = 0
  /\ account = NoAccount
  /\ syncDue = FALSE
  /\ aiDue = FALSE
  /\ pollDue = FALSE
  /\ lastOp = "Effects"
  /\ before = store
  /\ attackers = <<0, 1>>

AiStep == \E k \in 0..(AiRandDen - 1) : AiTimer(<<k, AiRandDen>>)

AiNext ==
  \/ AiStep
  \/ RunEffects

AiSpec == AiInit /\ [][AiNext]_vars


(* ---------------------------------------------------------------------- *)
(* Properties                                                              *)
(* ---------------------------------------------------------------------- *)
(* The last step ran the body of the sync effect: it merged the snapshot   *)
(* Remote into the store that was `before`.                                *)
Merged == lastOp \in {"SyncWrite", "SyncSkip"}

Remote == onlineGameState[1]

Max(a, b) == IF a > b THEN a ELSE b

(* The observable fields of a session.                                     *)
Obs(s) == <<s.gameStatus, s.currentTurn, s.gridA, s.gridB, s.winner>>

(* The remote grid that belongs in the local own-board slot (gridA) and in *)
(* the local opponent slot (gridB) of a player with the given role.        *)
RemoteOwn(role, r) == IF role = "A" THEN r.gridA ELSE r.gridB

RemoteEnemy(role, r) == IF role = "A" THEN r.gridB ELSE r.gridA

(* C1: merging a snapshot whose status is Waiting into a local session     *)
(* whose status is Active leaves the local status Active.                  *)
C1_ActiveNotRolledBack ==
  (Merged /\ before.gameStatus = ACTIVE /\ Remote.gameStatus = ONLINE_WAITING)
    => store.gameStatus = ACTIVE

C1_Witness ==
  /\ Merged /\ before.gameStatus = ACTIVE /\ Remote.gameStatus = ONLINE_WAITING
  /\ store.gameStatus = ACTIVE

(* C2: under Waiting < Active < Finished the status after a merge is never *)
(* below the larger of the local status and the translated remote status.  *)
C2_StatusNeverBelowMax ==
  Merged => store.gameStatus >= Max(before.gameStatus, TranslateStatus(Remote))

(* C3: a cell that was HIT or MISS in the local store before a merge is    *)
(* HIT or MISS after it, on both grids.                                    *)
C3_AttackedCellsKept ==
  Merged => \A c \in Cells :
              /\ Attacked(before.gridA[c]) => Attacked(store.gridA[c])
              /\ Attacked(before.gridB[c]) => Attacked(store.gridB[c])

(* C4: for a local player with role A or B, a cell the merged snapshot     *)
(* shows as HIT or MISS while the local cell was EMPTY or SHIP holds the   *)
(* remote value after the merge, whether or not status, turn or winner     *)
(* changed in that merge.                                                  *)
C4_RemoteProgressAdopted ==
  (Merged /\ before.playerRole \in {"A", "B"}) =>
    \A c \in Cells :
      /\ (Attacked(RemoteOwn(before.playerRole, Remote)[c])
            /\ Unattacked(before.gridA[c]))
           => store.gridA[c] = RemoteOwn(before.playerRole, Remote)[c]
      /\ (Attacked(RemoteEnemy(before.playerRole, Remote)[c])
            /\ Unattacked(before.gridB[c]))
           => store.gridB[c] = RemoteEnemy(before.playerRole, Remote)[c]

(* a merge that changed neither status, turn nor winner and still adopted  *)
(* a remote HIT or MISS                                                    *)
C4_Witness ==
  /\ Merged /\ before.playerRole \in {"A", "B"}
  /\ before.gameStatus = store.gameStatus
  /\ before.currentTurn = store.currentTurn
  /\ before.winner = store.winner
  /\ before.boardHashB # NoHash
  /\ \E c \in Cells :
       /\ Attacked(RemoteEnemy(before.playerRole, Remote)[c])
       /\ Unattacked(before.gridB[c])
       /\ store.gridB[c] = RemoteEnemy(before.playerRole, Remote)[c]

(* C5: after a merge, turn and winner are those of the side with the more  *)
(* advanced status, the remote side on ties; a local Active session keeps  *)
(* its turn and winner when the snapshot is a Waiting one.                 *)
C5_TurnWinnerFromMoreAdvanced ==
  Merged =>
    IF before.gameStatus > TranslateStatus(Remote)
    THEN store.currentTurn = before.currentTurn /\ store.winner = before.winner
    ELSE store.currentTurn = Remote.currentTurn /\ store.winner = NewWinner(Remote)

(* C6: from a session that is being polled, merging two snapshots in       *)
(* either order gives the same observable state.                           *)
C6_MergeOrderIrrelevant ==
  (isOnlineGame /\ Quiet /\ store.playerRole \in {"A", "B"}
     /\ DefaultPlacement(store) /\ inflight > 0) =>
    \A r1, r2 \in Snapshots(store) :
      Obs(SyncEffect(SyncEffect(store, r1), r2))
        = Obs(SyncEffect(SyncEffect(store, r2), r1))

(* C7 as stated: a merge writes to the store only when the merged result   *)
(* differs from the prior local state in status, turn, grids or winner.    *)
C7_WritesOnlyOnObservableChange ==
  lastOp = "SyncWrite" => Obs(store) # Obs(before)

(* C7 amended: a merge writes to the store only when the merged result     *)
(* differs from the prior local state in status, turn, grids or winner, or *)
(* when the local boardHashB is missing; and merging the same snapshot     *)
(* once more writes nothing.                                               *)
C7_WritesOnlyOnChangeOrMissingHash ==
  /\ lastOp = "SyncWrite" => (Obs(store) # Obs(before) \/ before.boardHashB = NoHash)
  /\ Merged => ~SyncWrites(store, Remote)

(* a merge that wrote, because of an observable change, with the hash      *)
(* present                                                                 *)
C7_Witness ==
  /\ lastOp = "SyncWrite" /\ before.boardHashB # NoHash
  /\ Obs(store) # Obs(before)
  /\ ~SyncWrites(store, Remote)

(* C8: a merge leaves the player role alone; for role A the own-board slot *)
(* (gridA) holds the remote gridA and the opponent slot (gridB) the remote *)
(* gridB, for role B the own-board slot holds the remote gridB and the     *)
(* opponent slot the remote gridA.                                         *)
C8_GridsMappedByRole ==
  Merged =>
    /\ store.playerRole = before.playerRole
    /\ store.playerRole = "A" =>
         (store.gridA = Remote.gridA /\ store.gridB = Remote.gridB)
    /\ store.playerRole = "B" =>
         (store.gridA = Remote.gridB /\ store.gridB = Remote.gridA)

C8_Witness ==
  /\ lastOp = "SyncWrite" /\ store.playerRole = "B"
  /\ Remote.gridA # Remote.gridB
  /\ before.gridA # Remote.gridB
  /\ store.gridA = Remote.gridB /\ store.gridB = Remote.gridA

(* C9: an attack is applied to the store (by the local player's click or   *)
(* by the AI's timer), or submitted to the ledger, only when the status is *)
(* Active and the attacker holds the turn; a rejected attempt leaves       *)
(* status, turn, both grids and winner as they were.                       *)
C9_AttackOnlyOnTurn ==
  /\ lastOp \in {"Attack", "AttackSubmitted"} =>
       (before.gameStatus = ACTIVE /\ isMyTurn(before))
  /\ lastOp = "AiAttack" =>
       (before.gameStatus = ACTIVE /\ before.currentTurn = 2)
  /\ lastOp \in {"AttackRejected", "AttackRepeated"} => Obs(store) = Obs(before)

(* an attempt rejected because the turn is the opponent's                  *)
C9_Witness ==
  /\ lastOp = "AttackRejected" /\ ~isMyTurn(before)
  /\ before.gameStatus = ACTIVE /\ Obs(store) = Obs(before)

(* C10: the first attack applied in a session is player A's, and each      *)
(* later attack is made by the player who did not make the attack before   *)
(* it: the turn alternates A, B, A, B along the applied attacks.           *)
C10_TurnAlternates ==
  attackers[2] # 0 =>
    IF attackers[1] = 0 THEN attackers[2] = 1 ELSE attackers[1] # attackers[2]

(* C10, the single step: an applied attack flips the turn.                 *)
C10_AttackFlipsTurn ==
  lastOp \in {"Attack", "AiAttack"} =>
    store.currentTurn = (IF before.currentTurn = 1 THEN 2 ELSE 1)

(* The grid an applied attack was aimed at, chosen by the turn it found.   *)
TargetGrid(s) == IF before.currentTurn = 1 THEN s.gridB ELSE s.gridA

Attacker == IF before.currentTurn = 1 THEN "A" ELSE "B"

AttackApplied == lastOp \in {"Attack", "AiAttack"}

(* C11: an applied attack makes the status Finished exactly when it turns  *)
(* the fourth ship cell of the attacked board into HIT (three HIT cells    *)
(* before, four after), and then the winner is the role that attacked.     *)
C11_FinishedOnFourthHit ==
  AttackApplied =>
    /\ store.gameStatus = FINISHED
         <=> (HitCount(TargetGrid(before)) = 3 /\ HitCount(TargetGrid(store)) = 4)
    /\ store.gameStatus = FINISHED => store.winner = Attacker

C11_Witness ==
  /\ AttackApplied /\ store.gameStatus = FINISHED
  /\ HitCount(TargetGrid(before)) = 3 /\ HitCount(TargetGrid(store)) = 4
  /\ store.winner = Attacker

(* The boards of player A and of player B in the store of a player whose   *)
(* role is B (own board in gridA) or not.                                  *)
BoardOfA(s) == IF s.playerRole = "B" THEN s.gridB ELSE s.gridA

BoardOfB(s) == IF s.playerRole = "B" THEN s.gridA ELSE s.gridB

(* C12: in every reachable state the status is Finished iff exactly one    *)
(* board has four HIT cells, the winner is then the owner of the other     *)
(* board, and the winner is null whenever the status is not Finished.      *)
C12_FinishedIffOneBoardSunk ==
  LET sunkA == HitCount(BoardOfA(store)) = 4
      sunkB == HitCount(BoardOfB(store)) = 4
  IN  /\ store.gameStatus = FINISHED <=> (sunkA # sunkB)
      /\ store.gameStatus = FINISHED =>
           store.winner = (IF sunkB THEN "A" ELSE "B")
      /\ store.gameStatus # FINISHED => store.winner = NoRole

(* C13: an attempt on a cell of the enemy board that is already HIT or     *)
(* MISS is rejected and leaves status, turn, both grids and winner as they *)
(* were; every attack that is applied turns a cell that was EMPTY or SHIP  *)
(* into HIT or MISS.                                                       *)
C13_RepeatedAttackRejected ==
  /\ lastOp = "AttackRepeated" => Obs(store) = Obs(before)
  /\ AttackApplied =>
       \E c \in Cells : /\ Unattacked(TargetGrid(before)[c])
                        /\ Attacked(TargetGrid(store)[c])

(* an attempt on an attacked cell, made while it is the player's turn      *)
C13_Witness ==
  /\ lastOp = "AttackRepeated" /\ isMyTurn(before) /\ ~aiThinking
  /\ before.gameStatus = ACTIVE
  /\ \E c \in Cells : Attacked(before.gridB[c])
  /\ Obs(store) = Obs(before)

(* The board of the player who did not make the applied attack, and the    *)
(* attacker's own board.                                                   *)
DefenderBoard(s) == IF Attacker = "A" THEN BoardOfB(s) ELSE BoardOfA(s)

AttackerBoard(s) == IF Attacker = "A" THEN BoardOfA(s) ELSE BoardOfB(s)

(* C14: an applied attack, the human's or the AI's, changes exactly one    *)
(* cell, on the defender's board: SHIP becomes HIT, EMPTY becomes MISS;    *)
(* the other cells of that board and the attacker's board are unchanged.   *)
C14_AttackChangesOneCell ==
  AttackApplied =>
    /\ AttackerBoard(store) = AttackerBoard(before)
    /\ \E c \in Cells :
         /\ \/ DefenderBoard(before)[c] = CELL_SHIP
               /\ DefenderBoard(store)[c] = CELL_HIT
            \/ DefenderBoard(before)[c] = CELL_EMPTY
               /\ DefenderBoard(store)[c] = CELL_MISS
         /\ \A d \in Cells \ {c} : DefenderBoard(store)[d] = DefenderBoard(before)[d]

(* a miss by the AI on the human's board                                   *)
C14_Witness ==
  /\ lastOp = "AiAttack"
  /\ before.gridB = store.gridB
  /\ \E c \in Cells : before.gridA[c] = CELL_EMPTY /\ store.gridA[c] = CELL_MISS

(* The fields of the local session.                                        *)
Session(s) == <<s.gameId, s.playerRole, s.gameStatus, s.currentTurn,
                s.gridA, s.gridB, s.winner>>

(* C15: joinGame is applied only to a session whose status is Waiting, and *)
(* makes it Active; a join that fails, because the ledger's game is not    *)
(* Waiting or for another reason, leaves the local session as it was.      *)
C15_JoinOnlyWhenWaiting ==
  /\ lastOp = "JoinGame" =>
       (before.gameStatus = WAITING /\ store.gameStatus = ACTIVE)
  /\ lastOp \in {"JoinNotWaiting", "JoinFailed"} => Session(store) = Session(before)

(* A step that createGame, joinGame, an attack or a merge made.            *)
SessionStep == Merged \/ AttackApplied \/ lastOp \in {"CreateGame", "JoinGame"}

(* C16: no createGame, joinGame, attack or merge moves the status backward *)
(* in the order Waiting, Active, Finished.                                 *)
C16_StatusNeverBackward ==
  SessionStep => store.gameStatus >= before.gameStatus

(* C17: once the status is Finished, no attack attempt of the human or the *)
(* AI, no joinGame, no createGame and no merge changes status, turn, a     *)
(* grid or the winner.                                                     *)
C17_FinishedIsFrozen ==
  (before.gameStatus = FINISHED
     /\ (SessionStep \/ lastOp \in {"AttackRejected", "AttackRepeated",
                                    "AttackSubmitted", "AiNoMove"}))
    => Obs(store) = Obs(before)

Placed == lastOp \in {"createGame", "joinGame"}

PlacedGrid(s) == IF lastOp = "createGame" THEN s.gridA ELSE s.gridB

ShipIndices(x, y, o) ==
  {IF o = "horizontal" THEN y * 5 + x + i ELSE (y + i) * 5 + x : i \in 0..3}

(* C20: for every placement that fits, the grid createGame or joinGame     *)
(* writes has SHIP at exactly the four indices of the ship and EMPTY at    *)
(* the other 21.                                                           *)
C20_ShipAtFourIndices ==
  (Placed /\ isValidPlacement(before)) =>
    /\ \A c \in Cells :
         PlacedGrid(store)[c] =
           IF c \in ShipIndices(before.shipX, before.shipY, before.orientation)
           THEN CELL_SHIP ELSE CELL_EMPTY
    /\ Cardinality({c \in Cells : PlacedGrid(store)[c] = CELL_SHIP}) = 4
    /\ Cardinality({c \in Cells : PlacedGrid(store)[c] = CELL_EMPTY}) = 21

(* horizontal at (0,0) occupies {0,1,2,3}; vertical at (4,1) reaches 24    *)
C20_Witness ==
  /\ Placed /\ isValidPlacement(before)
  /\ \/ /\ before.shipX = 0 /\ before.shipY = 0 /\ before.orientation = "horizontal"
        /\ {c \in Cells : PlacedGrid(store)[c] = CELL_SHIP} = {0, 1, 2, 3}
     \/ /\ before.shipX = 4 /\ before.shipY = 1 /\ before.orientation = "vertical"
        /\ {c \in Cells : PlacedGrid(store)[c] = CELL_SHIP} = {9, 14, 19, 24}

(* The cells of a board that belong to its ship, hit or not.               *)
ShipCells(g) == {c \in Cells : g[c] = CELL_SHIP \/ g[c] = CELL_HIT}

(* Four cells in one horizontal or vertical line inside the grid.          *)
IsShipLine(g) ==
  \E x \in Coords, y \in Coords, o \in {"horizontal", "vertical"} :
     /\ (IF o = "horizontal" THEN x + 4 <= 5 ELSE y + 4 <= 5)
     /\ ShipCells(g) = ShipIndices(x, y, o)

(* C21: every board on which a ship has been placed (board A of a player   *)
(* who created the game, board B of a player who joined, board B once an   *)
(* AI game has started, and any board that shows a ship cell) has exactly  *)
(* four ship cells, SHIP or HIT, in one line inside the grid; no board has *)
(* more than four HIT cells.                                               *)
C21_FourShipCellsInLine ==
  /\ store.playerRole = "A" => IsShipLine(store.gridA)
  /\ store.playerRole = "B" => IsShipLine(store.gridB)
  /\ (gameMode = "ai" /\ store.playerRole = "A" /\ store.gameStatus # WAITING)
       => IsShipLine(store.gridB)
  /\ ShipCells(store.gridA) # {} => IsShipLine(store.gridA)
  /\ ShipCells(store.gridB) # {} => IsShipLine(store.gridB)
  /\ HitCount(store.gridA) <= 4 /\ HitCount(store.gridB) <= 4

(* C22: a commitment that has been set is not changed to a different value *)
(* by any step other than a reset: not by a merge, not by createGame or    *)
(* joinGame.                                                               *)
C22_CommitmentImmutable ==
  lastOp \notin {"CancelGame", "PlayAgain"} =>
    /\ before.boardHashA # NoHash => store.boardHashA = before.boardHashA
    /\ before.boardHashB # NoHash => store.boardHashB = before.boardHashB

(* C23: while an attack transaction of handleAttack is pending, no second  *)
(* attack is submitted: the pending submission stays the only one until it *)
(* ends.                                                                   *)
C23_OneAttackInFlight ==
  [][pending.op = "attack" =>
       /\ lastOp' # "AttackSubmitted"
       /\ pending' = pending \/ (pending' = NoPending /\ lastOp' = "AttackEnd")]_vars

(* An attack is pending in a state in which handleAttack would accept      *)
(* another click of the player.                                            *)
C23_Witness ==
  /\ pending.op = "attack" /\ loading
  /\ gameMode = "online" /\ store.gameStatus = ACTIVE /\ isMyTurn(store)
  /\ \E x \in ClickXs, y \in ClickYs : Unattacked(store.gridB[y * GridSide + x])

(* The store right after handleAttack accepted a click shows a cell of the *)
(* enemy board newly HIT or MISS and the turn passed on.                   *)
AppliedAtOnce ==
  /\ \E c \in Cells : Unattacked(before.gridB[c]) /\ Attacked(store.gridB[c])
  /\ store.currentTurn # before.currentTurn

(* C24: an attack accepted by handleAttack, in AI mode or in online mode,  *)
(* is applied to the store in the same step, before any snapshot is        *)
(* merged.                                                                 *)
C24_AttackAppliedSynchronously ==
  lastOp \in {"Attack", "AttackSubmitted"} => AppliedAtOnce

(* The AI-mode half of C24.                                                *)
C24_AiModeAppliedSynchronously == lastOp = "Attack" => AppliedAtOnce

(* C25: at most one polling interval timer exists; it exists only while    *)
(* polling is enabled and a game id is set (or until the effects of the    *)
(* render that ended this are committed), and a fetch is started only      *)
(* while the timer exists and polling is enabled.                          *)
C25_OnePollingTimer ==
  /\ pollTimer <= 1
  /\ pollTimer = 1 => (isOnlineGame \/ pollDue)
  /\ lastOp = "PollStart" => (pollTimer = 1 /\ isOnlineGame)
  /\ (lastOp = "PlayAgain" \/ (Quiet /\ store.gameId = NoId)) => pollTimer = 0

(* The timer of a cancelled online game has been cleared while a fetch it  *)
(* had started is still in flight.                                         *)
C25_Witness ==
  /\ Quiet /\ pollTimer = 0 /\ inflight > 0
  /\ store.gameId = NoId /\ gameMode = "online"

(* C26: in AI mode the AI applies at most one attack per AI turn (never    *)
(* two AI attacks in a row without an attack of the human in between), and *)
(* it attacks only when the status is Active and the turn is PlayerB.      *)
C26_OneAiAttackPerTurn ==
  /\ gameMode = "ai" => attackers # <<2, 2>>
  /\ lastOp = "AiAttack" =>
       (before.gameStatus = ACTIVE /\ before.currentTurn = 2 /\ attackers[2] = 2)

(* The part of C26 about a single timer callback.                          *)
C26_AiAttacksOnItsTurn ==
  /\ (Quiet /\ aiTimer) => AiGuard(store, gameMode)
  /\ lastOp = "AiAttack" =>
       (before.gameStatus = ACTIVE /\ before.currentTurn = 2
        /\ store.currentTurn = 1)

(* The byte of the record at a position of the 190-byte layout.            *)
LayoutByte(data, pos) ==
  data[(IF Len(data) >= 198 THEN 8 ELSE 0) + pos + 1]

(* A record that is too short for the layout, or whose turn, status or     *)
(* grid cells lie outside their enumerations.                              *)
TooShort(acc) == acc.found /\ Len(acc.data) < 190

BadValues(acc) ==
  /\ acc.found /\ Len(acc.data) >= 190
  /\ \/ LayoutByte(acc.data, 72) \notin {1, 2}
     \/ LayoutByte(acc.data, 73) \notin 0..3
     \/ \E i \in 0..24 : LayoutByte(acc.data, 74 + i) \notin 0..3
     \/ \E i \in 0..24 : LayoutByte(acc.data, 132 + i) \notin 0..3

(* The poll of the record was discarded: it became no snapshot and wrote   *)
(* nothing to the store, and the timer is still there.                     *)
PollDiscarded ==
  /\ lastOp \notin {"PollDone", "SyncWrite", "SyncSkip"}
  /\ store = before
  /\ pollTimer = 1

(* C27: a malformed record (too short, or with field values outside the    *)
(* enumerations) is discarded as a whole: no field of the local session    *)
(* is changed by it, and polling goes on.                                  *)
C27_MalformedDiscarded ==
  (TooShort(account) \/ BadValues(account)) => PollDiscarded

(* The half of C27 about records that are too short.                       *)
C27_TooShortDiscarded == TooShort(account) => PollDiscarded

(* C28: when a fetch fails or finds no account, the snapshot of the last   *)
(* successful fetch and the local session stay as they are, and the        *)
(* interval timer stays set.                                               *)
C28_FailedFetchChangesNothing ==
  [][lastOp' = "PollNone" =>
       /\ onlineGameState' = onlineGameState
       /\ store' = store
       /\ pollTimer' = pollTimer]_vars

(* A fetch has failed while the hook held the snapshot of an earlier       *)
(* fetch.                                                                  *)
C28_Witness ==
  /\ lastOp = "PollNone" /\ ~getGameByGameId(account).found
  /\ onlineGameState # << >> /\ pollTimer = 1

(* The last step was the failure of a create or join attempt.              *)
AttemptFailed == lastOp \in {"CreateFailed", "JoinNotWaiting", "JoinFailed"}

(* C29 as stated: after a failed create or join attempt the game id, role, *)
(* status, turn, grids, commitments, salt and winner are what they were    *)
(* before the attempt.                                                     *)
C29_FailedAttemptChangesNothing ==
  AttemptFailed =>
    /\ Session(store) = Session(before)
    /\ store.boardHashA = before.boardHashA /\ store.boardHashB = before.boardHashB
    /\ store.salt = before.salt

(* C29 amended: after a failed create or join attempt the game id, role,   *)
(* status, turn, grids, commitments and winner are what they were before   *)
(* the attempt; the salt is the one the attempt generated.                 *)
C29_FailedAttemptKeepsSession ==
  AttemptFailed =>
    /\ Session(store) = Session(before)
    /\ store.boardHashA = before.boardHashA /\ store.boardHashB = before.boardHashB
    /\ store.salt \in Salts

(* A first attempt has failed: the store had no salt before it.            *)
C29_Witness ==
  /\ AttemptFailed /\ before.salt = NoSalt /\ store.salt # NoSalt
  /\ ~store.isShipPlaced /\ store.gameId = NoId

(* The record that the byte positions of the 190-byte layout give:         *)
(* sessionId 0, playerA 8, playerB 40, currentTurn 72, gameStatus 73,      *)
(* gridA 74, commitmentA 99, hitsA 131, gridB 132, commitmentB 157,        *)
(* hitsB 189, every position 8 further on in a buffer of 198 bytes or      *)
(* more.                                                                   *)
LayoutBytes(data, pos, n) == [i \in 1..n |-> LayoutByte(data, pos + i - 1)]

LayoutRecord(data) ==
  [threw |-> FALSE,
   gameId |-> [k \in 1..8 |-> LayoutByte(data, 8 - k)],
   playerA |-> LayoutBytes(data, 8, 32),
   playerB |-> LayoutBytes(data, 40, 32),
   currentTurn |-> LayoutByte(data, 72),
   gameStatus |-> LayoutByte(data, 73),
   gridA |-> [c \in 0..24 |-> LayoutByte(data, 74 + c)],
   boardHashA |-> LayoutBytes(data, 99, 32),
   hitsA |-> LayoutByte(data, 131),
   gridB |-> [c \in 0..24 |-> LayoutByte(data, 132 + c)],
   boardHashB |-> LayoutBytes(data, 157, 32),
   hitsB |-> LayoutByte(data, 189)]

(* C30: the snapshot decoded from a buffer of 190 bytes or more holds the  *)
(* bytes at the fixed offsets of the layout, shifted by 8 when the buffer  *)
(* has 198 bytes or more and unshifted for 190 to 197 bytes; a record      *)
(* behind an 8-byte discriminator decodes to the same fields as the record *)
(* alone.                                                                  *)
C30_DecodesAtLayoutOffsets ==
  /\ (lastOp = "PollDone" /\ account.found) =>
       /\ Len(account.data) >= 190
       /\ onlineGameState[1] = LayoutRecord(account.data)
  /\ (account.found /\ Len(account.data) = 198) =>
       decodeGameState(account.data)
         = decodeGameState(SubSeq(account.data, 9, Len(account.data)))

(* A record behind a discriminator has been decoded, and so has one with   *)
(* 193 bytes.                                                              *)
C30_Witness ==
  /\ lastOp = "PollDone" /\ account.found
  /\ \/ /\ Len(account.data) = 198
        /\ onlineGameState[1].currentTurn = 2
        /\ onlineGameState[1].gameStatus = ONLINE_ACTIVE
        /\ onlineGameState[1].gridB = OpponentB
        /\ onlineGameState[1].hitsB = 6
     \/ /\ Len(account.data) = 193
        /\ onlineGameState[1].currentTurn = 2
        /\ onlineGameState[1].hitsB = 6

(* The cells whose value differs between two grids.                        *)
Changed(g1, g2) == {c \in Cells : g1[c] # g2[c]}

(* The cells of the human's board that the timeout callback of the AI     *)
(* attacks in session s for some value of Math.random().                   *)
AiChoices(s) ==
  LET results == {AiMove(s, <<k, AiRandDen>>).gridA : k \in 0..(AiRandDen - 1)}
  IN  {c \in Cells : \E g \in results : g[c] # s.gridA[c]}

(* Session s with every cell of the human's board attacked.                *)
AllAttacked(s) ==
  [s EXCEPT !.gridA = [c \in Cells |->
                         IF s.gridA[c] = CELL_SHIP THEN CELL_HIT
                         ELSE IF s.gridA[c] = CELL_EMPTY THEN CELL_MISS
                         ELSE s.gridA[c]]]

(* C31: an attack of the AI changes one cell of the human's board, a cell  *)
(* that was neither HIT nor MISS; while the AI's timeout is pending every  *)
(* such cell can be the one attacked; with no such cell the timeout        *)
(* applies no attack.                                                      *)
C31_AiAttacksAnyUnattackedCell ==
  /\ lastOp = "AiAttack" =>
       /\ Cardinality(Changed(before.gridA, store.gridA)) = 1
       /\ \A c \in Changed(before.gridA, store.gridA) :
            Unattacked(before.gridA[c]) /\ Attacked(store.gridA[c])
       /\ store.gridB = before.gridB
  /\ lastOp = "AiNoMove" =>
       (attackableCells(before.gridA) = {} /\ store = before)
  /\ (Quiet /\ aiTimer) =>
       /\ AiChoices(store) = {c \in Cells : Unattacked(store.gridA[c])}
       /\ AiChoices(AllAttacked(store)) = {}
       /\ \A k \in 0..(AiRandDen - 1) :
            AiMove(AllAttacked(store), <<k, AiRandDen>>) = AllAttacked(store)

(* The AI has hit a ship cell of a board with several unattacked cells.    *)
C31_Witness ==
  /\ lastOp = "AiAttack"
  /\ Cardinality(attackableCells(before.gridA)) > 2
  /\ \E c \in Cells : before.gridA[c] = CELL_SHIP /\ store.gridA[c] = CELL_HIT

(* Two boards show the same shots: the same cells HIT, the same cells MISS. *)
SameAttacked(g1, g2) ==
  \A c \in Cells : /\ (g1[c] = CELL_HIT) = (g2[c] = CELL_HIT)
                   /\ (g1[c] = CELL_MISS) = (g2[c] = CELL_MISS)

(* C32: whenever the AI is about to move, the cells it may attack are the  *)
(* same for every other board of the human that shows the same shots,      *)
(* wherever the unhit ship cells of that board lie.                        *)
C32_AiChoiceIgnoresShip ==
  (Quiet /\ aiTimer) =>
    \A s2 \in {g \in AiGames : SameAttacked(store.gridA, g.gridA)} :
       AiChoices(s2) = AiChoices(store)

(* The AI has attacked a ship cell that is an empty cell on another board  *)
(* showing the same shots.                                                 *)
C32_Witness ==
  /\ lastOp = "AiAttack"
  /\ \E s2 \in AiGames, c \in Cells :
       /\ SameAttacked(before.gridA, s2.gridA)
       /\ before.gridA[c] = CELL_SHIP /\ s2.gridA[c] = CELL_EMPTY
       /\ store.gridA[c] = CELL_HIT

(* ---------------------------------------------------------------------- *)
(* What GameBoard renders                                                  *)
(* ---------------------------------------------------------------------- *)
(* The board of the active view carries no ship preview.                   *)
NoPreview == [shown |-> FALSE, x |-> 0, y |-> 0, horizontal |-> TRUE]

(* GameBoard.getCellStyle: the colour classes of the cell at index.        *)
getCellStyle(value, index, isOwner, shipPreview) ==
  LET previewCells ==
        {(IF shipPreview.horizontal THEN shipPreview.y ELSE shipPreview.y + i)
           * 5
         + (IF shipPreview.horizontal THEN shipPreview.x + i ELSE shipPreview.x)
           : i \in 0..3}
  IN  IF shipPreview.shown /\ index \in previewCells
        THEN "bg-purple-500/50 border-purple-400"
      ELSE IF value = CELL_SHIP
        THEN IF isOwner THEN "bg-blue-600 border-blue-400"
                        ELSE "bg-slate-700 border-slate-600"
      ELSE IF value = CELL_HIT THEN "bg-red-600 border-red-400"
      ELSE IF value = CELL_MISS THEN "bg-gray-500 border-gray-400"
      ELSE "bg-slate-700 border-slate-600 hover:bg-slate-600"

(* GameBoard.getCellContent: the text inside the cell.                     *)
getCellContent(value, isOwner) ==
  IF value = CELL_HIT THEN "explosion"
  ELSE IF value = CELL_MISS THEN "wave"
  ELSE IF value = CELL_SHIP THEN (IF isOwner THEN "ship" ELSE "")
  ELSE ""

(* GameBoard: the button rendered for the cell at index of grid: its       *)
(* classes, its content, whether it is disabled and whether a click on it  *)
(* reaches onCellClick.                                                    *)
CellButton(grid, index, isOwner, isAttackMode, shipPreview) ==
  LET value == grid[index]
      click == isAttackMode /\ (value = CELL_EMPTY \/ value = CELL_SHIP)
  IN  [style    |-> getCellStyle(value, index, isOwner, shipPreview),
       cursor   |-> IF click THEN "cursor-crosshair hover:scale-105" ELSE "",
       blocked  |-> IF ~click /\ isAttackMode
                      THEN "cursor-not-allowed opacity-50" ELSE "",
       content  |-> getCellContent(value, isOwner),
       disabled |-> ~click /\ isAttackMode,
       canClick |-> click]

(* GameBoard: the buttons of a whole board.                                *)
GameBoard(grid, isOwner, isAttackMode, shipPreview) ==
  [c \in Cells |-> CellButton(grid, c, isOwner, isAttackMode, shipPreview)]

(* GamePage, active view: the enemy board and the player's own board.      *)
EnemyBoard(s, thinking) ==
  GameBoard(s.gridB, FALSE, isMyTurn(s) /\ ~thinking, NoPreview)

YourBoard(s) == GameBoard(s.gridA, TRUE, FALSE, NoPreview)

(* Grid g with every unhit ship cell emptied, and with a ship on every     *)
(* unattacked cell: two grids that differ from g only in SHIP versus EMPTY. *)
WithoutShips(g) ==
  [c \in Cells |-> IF g[c] = CELL_SHIP THEN CELL_EMPTY ELSE g[c]]

AllShips(g) ==
  [c \in Cells |-> IF g[c] = CELL_EMPTY THEN CELL_SHIP ELSE g[c]]

(* C33: on the active screen the enemy board is rendered exactly as the    *)
(* same board with its SHIP cells emptied or its EMPTY cells occupied      *)
(* (style, content and clickability of every cell), and the player's own   *)
(* board shows every SHIP cell as a ship.                                  *)
C33_EnemyShipsRenderedAsEmpty ==
  Screen(store, loading) = "active" =>
    /\ \A g \in {WithoutShips(store.gridB), AllShips(store.gridB)} :
         EnemyBoard([store EXCEPT !.gridB = g], aiThinking)
           = EnemyBoard(store, aiThinking)
    /\ \A c \in Cells :
         store.gridA[c] = CELL_SHIP =>
           /\ YourBoard(store)[c].style = "bg-blue-600 border-blue-400"
           /\ YourBoard(store)[c].content = "ship"

(* C34: the sync effect writes a snapshot into the store only while        *)
(* polling is enabled, that is in online mode with a game id set; after a  *)
(* reset and in AI mode no snapshot is merged.                             *)
C34_NoMergeOutsideOnlineSession ==
  lastOp = "SyncWrite" => (gameMode = "online" /\ before.gameId # NoId)

(* C35: while the local player has role B, the own-board slot gridA shows  *)
(* the ship at the four indices of the player's placement and the enemy    *)
(* slot gridB shows no ship outside player A's placement.                  *)
C35_RoleBOwnBoardInGridA ==
  store.playerRole = "B" =>
    /\ ShipCells(store.gridA)
         = ShipIndices(store.shipX, store.shipY, store.orientation)
    /\ ShipCells(store.gridB) \subseteq ShipCells(OpponentA)

(* ---------------------------------------------------------------------- *)
(* The page under the scheduling of the browser: a pending timeout fires,  *)
(* React commits the effects that are due, a fetch in flight resolves and  *)
(* an awaited transaction settles.  What the user does is not forced.      *)
(* ---------------------------------------------------------------------- *)
AiTimerFires == \E k \in 0..(RandDen - 1) : AiTimer(<<k, RandDen>>)

FetchResolves == (\E r \in SnapshotsA \cup SnapshotsB : PollDone(r)) \/ PollNone

HandlerSettles ==
  \/ \E ok \in BOOLEAN, id \in GameIds : CreateEnd(ok, id)
  \/ \E remoteStatus \in 0..3, txOk \in BOOLEAN : JoinEnd(remoteStatus, txOk)
  \/ AttackEnd

LiveSpec ==
  /\ Init /\ [][Next]_vars
  /\ WF_vars(AiTimerFires) /\ WF_vars(RunEffects)
  /\ WF_vars(FetchResolves) /\ WF_vars(HandlerSettles)

(* The AI is to move in an active AI game whose human board has a cell     *)
(* left to attack.                                                         *)
AiToMove ==
  /\ gameMode = "ai" /\ store.gameStatus = ACTIVE /\ store.playerRole = "A"
  /\ store.currentTurn = 2 /\ attackableCells(store.gridA) # {}

(* C36: whenever the AI is to move, eventually aiThinking is false and the *)
(* turn is the human's or the game has finished.                           *)
C36_AiEventuallyMoves ==
  AiToMove ~> (~aiThinking /\ (store.currentTurn = 1 \/ store.gameStatus = FINISHED))


(* ---------------------------------------------------------------------- *)
(* A whole game against the AI                                             *)
(* ---------------------------------------------------------------------- *)
(* Positions Math.random() picks for the AI ship in handleStartVsAI.       *)
MatchAiShips == {<<0, 0>>, <<1, 2>>}

(* The store right after handleStartVsAI: the human's ship on gridA, the   *)
(* AI ship on gridB, status Active, the human to move.                     *)
MatchGame(ship, aiShipX, aiShipY) ==
  [AiGame(ship, 0, 0) EXCEPT !.gridB = generateGrid(aiShipX, aiShipY, TRUE),
                             !.currentTurn = 1]

(* What useGamePolling holds when the AI game starts: nothing, or the      *)
(* snapshot of an online game that was created and cancelled before.       *)
MatchHeld ==
  {<< >>} \cup {<<r>> : r \in {r \in SnapshotsA : r.gameStatus = ONLINE_WAITING}}

(* handleStartVsAI has just returned; the effects it scheduled are due.    *)
MatchInit ==
  /\ store \in {MatchGame(ship, p[1], p[2]) : ship \in AiOwnShips, p \in MatchAiShips}
  /\ onlineGameState \in MatchHeld
  /\ gameMode = "ai"
  /\ aiThinking = FALSE
  /\ aiTimer = FALSE
  /\ loading = FALSE
  /\ pending = NoPending
  /\ inflight = 0
  /\ pollTimer = 0
  /\ account = NoAccount
  /\ syncDue = TRUE
  /\ aiDue = TRUE
  /\ pollDue = FALSE
  /\ lastOp = "StartVsAI"
  /\ before = store
  /\ attackers = <<0, 0>>

(* The cells the human clicks: the first and the last cell of the enemy    *)
(* board that can still be attacked.                                       *)
MatchTargets(g) ==
  LET cells == attackableCells(g)
  IN  IF cells = {} THEN {}
      ELSE {Nth(cells, 0), Nth(cells, Cardinality(cells) - 1)}

MatchClick ==
  \E c \in MatchTargets(store.gridB) : ClickEnemyCell(c % GridSide, c \div GridSide)

(* Math.random() near 0 or near 1: the AI takes the first or the last cell *)
(* it can attack.                                                          *)
MatchAi == \E k \in {0, AiRandDen - 1} : AiTimer(<<k, AiRandDen>>)

MatchNext ==
  \/ MatchClick
  \/ MatchAi
  \/ RunEffects

MatchSpec == MatchInit /\ [][MatchNext]_vars

(* The number of attacked cells of a board and of both boards of a store.  *)
AttackedCount(g) == Cardinality({c \in Cells : Attacked(g[c])})

AppliedAttacks(s) == AttackedCount(s.gridA) + AttackedCount(s.gridB)

(* The board the player to move attacks.                                   *)
DefenderGrid(s) == IF s.currentTurn = 1 THEN s.gridB ELSE s.gridA

(* An attack can still be applied: the human's click on some cell is let   *)
(* through, or the AI's timeout is pending with a cell to attack.          *)
AttackPossible ==
  \/ /\ isMyTurn(store) /\ ~aiThinking
     /\ attackableCells(store.gridB) # {}
  \/ aiTimer /\ attackableCells(store.gridA) # {}

(* C37: in an AI game every applied attack takes exactly one cell from the *)
(* unattacked cells of the defender's board and none from the other board; *)
(* no step gives an attacked cell back, so the attacked cells count the    *)
(* applied attacks; an Active game has at most 48 of them and a next one   *)
(* can be applied, so the game is Finished after at most 49 attacks; the   *)
(* player to move always has an unattacked cell to choose.                 *)
C37_AiGameEndsWithin49Attacks ==
  /\ [](lastOp \in {"Attack", "AiAttack"} =>
          /\ Cardinality(attackableCells(DefenderGrid(before)))
               = Cardinality(attackableCells(DefenderGrid([store EXCEPT
                     !.currentTurn = before.currentTurn]))) + 1
          /\ AppliedAttacks(store) = AppliedAttacks(before) + 1)
  /\ [][\A c \in Cells : /\ Attacked(store.gridA[c]) => Attacked(store'.gridA[c])
                         /\ Attacked(store.gridB[c]) => Attacked(store'.gridB[c])]_vars
  /\ [](AppliedAttacks(store) <= 49)
  /\ []((store.gameStatus = ACTIVE /\ Quiet) =>
          /\ AppliedAttacks(store) <= 48
          /\ attackableCells(DefenderGrid(store)) # {}
          /\ AttackPossible)


(* ---------------------------------------------------------------------- *)
(* The ship placer over the whole board                                    *)
(* ---------------------------------------------------------------------- *)
(* ShipPlacer: the preview board, an empty grid with the ship preview.     *)
previewGrid == EmptyGrid

(* A click on cell (x, y) of the preview board: GameBoard passes it on to  *)
(* setShipPosition only if the cell can be clicked.                        *)
PreviewClick(x, y) ==
  /\ Quiet /\ Screen(store, loading) = "select"
  /\ store' = IF CellButton(previewGrid, y * GridSide + x, TRUE, FALSE,
                            [shown |-> TRUE, x |-> store.shipX, y |-> store.shipY,
                             horizontal |-> store.orientation = "horizontal"]).canClick
              THEN setShipPosition(store, x, y)
              ELSE store
  /\ Schedule(store', gameMode)
  /\ lastOp' = "PreviewClick"
  /\ UNCHANGED <<gameMode, loading, pending>> /\ KeepPage
  /\ NoHistory

(* The selection screen with the sliders over their whole range, up to the *)
(* confirmed placement.                                                    *)
PlacerNext ==
  \/ \E m \in {"ai", "online"} : SetGameMode(m)
  \/ \E v \in Coords : SliderX(v)
  \/ \E v \in Coords : SliderY(v)
  \/ ClickHorizontal
  \/ ClickVertical
  \/ \E x \in Coords, y \in Coords : PreviewClick(x, y)
  \/ \E salt \in Salts : CreateBegin(salt)
  \/ \E ok \in BOOLEAN, id \in GameIds : CreateEnd(ok, id)
  \/ \E salt \in Salts, id \in GameIds : JoinBegin(salt, id)
  \/ \E remoteStatus \in 0..3, txOk \in BOOLEAN : JoinEnd(remoteStatus, txOk)
  \/ RunEffects

PlacerSpec == Init /\ [][PlacerNext]_vars

(* C38: whatever the sliders, the orientation buttons and the preview      *)
(* board were used for, a horizontal placement has shipX <= 1 and a        *)
(* vertical one shipY <= 1, both coordinates stay on the board, and the    *)
(* placement createGame or joinGame received fits and put the ship on its  *)
(* four cells.                                                             *)
C38_PlacementAlwaysFits ==
  /\ store.shipX \in Coords /\ store.shipY \in Coords
  /\ store.orientation = "horizontal" => store.shipX <= 1
  /\ store.orientation = "vertical" => store.shipY <= 1
  /\ isValidPlacement(store)
  /\ lastOp \in {"CreateGame", "JoinGame"} =>
       ShipCells(IF lastOp = "CreateGame" THEN store.gridA ELSE store.gridB)
         = ShipIndices(store.shipX, store.shipY, store.orientation)

(* The sliders and the Vertical button have moved the ship to the last     *)
(* column, rows 1 to 4, and that placement was confirmed.                  *)
C38_Witness ==
  /\ lastOp = "CreateGame"
  /\ store.orientation = "vertical" /\ store.shipX = 4 /\ store.shipY = 1
  /\ ShipCells(store.gridA) = {9, 14, 19, 24}

====
